---- MODULE Spec2Model ----
(***************************************************************************)
(* A model of rtcclient.workitem.Workitem: the conditional                 *)
(* read-modify-write calls on a work item's subscriber collection          *)
(* (addSubscriber, addSubscribers, removeSubscriber, removeSubscribers),   *)
(* the comment append (addComment) and the comment lookup                  *)
(* (getCommentByID), run by client threads against one server-held work    *)
(* item.                                                                   *)
(***************************************************************************)
EXTENDS Integers, Sequences, FiniteSets, TLC

VARIABLES
    srvSubs,     \* server: the rtc_cm:subscribers elements of the work item, as on the wire
    srvEtag,     \* server: the ETag of the work item's subscriber representation
    cmtCount,    \* server: oslc_cm:totalCount of the comments collection
    cmtEtag,     \* server: the ETag of the comments collection
    rtcHeaders,  \* client: rtc_obj.headers, the header map shared by all calls
    call,        \* per client thread: the call in flight between its GET and its write
    log,         \* history: one record per finished call, in order of completion
    budget       \* calls that may still be started

vars == <<srvSubs, srvEtag, cmtCount, cmtEtag, rtcHeaders, call, log, budget>>

(***************************************************************************)
(* Bounds of the model.                                                    *)
(***************************************************************************)
MaxCalls == 1
MaxSeqCalls == 3
MaxConcCalls == 2
MaxBatch == 2
MaxMembers == 3
MaxComments == 2

Procs == {1, 2}

(***************************************************************************)
(* Values.  An email argument is any Python value: isStr tells whether it  *)
(* is a string, text holds its characters.                                 *)
(***************************************************************************)
EmailA == [isStr |-> TRUE, text |-> <<"a", "@", "x">>]
EmailB == [isStr |-> TRUE, text |-> <<"b", "@", "x">>]
EmailC == [isStr |-> TRUE, text |-> <<"c", "@", "x">>]
EmailNoAt == [isStr |-> TRUE, text |-> <<"a", "x">>]
EmailNotStr == [isStr |-> FALSE, text |-> <<>>]
EmailUnknown == [isStr |-> TRUE, text |-> <<"u", "@", "x">>]

Emails == {EmailA, EmailB, EmailNoAt, EmailNotStr}
GoodEmails == {EmailA, EmailB}

SeqsUpTo(S, n) == UNION {[1..k -> S] : k \in 0..n}

\* the condition of lines 254 and 293, negated
ValidEmail(email) == email.isStr /\ \E i \in DOMAIN email.text : email.text[i] = "@"

\* rtc_obj.getOwnedBy(email) raises for an email it cannot resolve to a person
Resolves(email) == email # EmailUnknown

\* rtc_obj.getOwnedBy(email): the person resource of an email
getOwnedBy(email) == [url |-> <<"/jts/users/">> \o email.text, email |-> email.text]

\* the OrderedDict {"@rdf:resource": url} of one subscriber
Member(url) == [resource |-> url]

\* the members a collection on the server may hold, in the order it lists them
MemberList == <<getOwnedBy(EmailA).url, getOwnedBy(EmailB).url, getOwnedBy(EmailC).url>>

MemberUrls == {MemberList[i] : i \in DOMAIN MemberList}

Rank(url) == CHOOSE i \in DOMAIN MemberList : MemberList[i] = url

Ordered(s) == \A i, j \in DOMAIN s : i < j => Rank(s[i]) < Rank(s[j])

(***************************************************************************)
(* The parsed description: subs.shape is "absent" (no rtc_cm:subscribers   *)
(* key), "dict" (one OrderedDict, items = <<it>>) or "list" (a Python      *)
(* list of OrderedDicts); xmlns tells whether @xmlns:rtc_cm was set.       *)
(***************************************************************************)
Absent == [shape |-> "absent", items |-> <<>>]
Dict(m) == [shape |-> "dict", items |-> <<m>>]
List(ms) == [shape |-> "list", items |-> ms]

\* xmltodict.parse of the fetched body: no element, one element, several
parse(content) ==
    [xmlns |-> Len(content) > 0,
     subs |-> IF Len(content) = 0 THEN Absent
              ELSE IF Len(content) = 1 THEN Dict(Member(content[1]))
              ELSE List([i \in DOMAIN content |-> Member(content[i])])]

\* xmltodict.unparse of the snapshot: one element per member, whatever the shape
unparse(raw_data) ==
    [i \in DOMAIN raw_data.subs.items |-> raw_data.subs.items[i].resource]

\* faulty variant: the member is compared with the email instead of the URL
check_exist_by_email(new_subscriber, exist_sub) ==
    new_subscriber.email = exist_sub.resource

_check_exist_subscriber(new_subscriber, exist_sub) ==
    new_subscriber.url = exist_sub.resource

\* faulty variant: the result is inverted
check_missing_inverted(del_subscriber, exist_sub) ==
    del_subscriber.url = exist_sub.resource

_check_missing_subscriber(del_subscriber, exist_sub) ==
    ~(del_subscriber.url = exist_sub.resource)

\* lines 320-330: the index at which the scan of a list breaks, 0 when it runs
\* to the end
FirstMatch(del_sub, items) ==
    IF \E i \in DOMAIN items : ~_check_missing_subscriber(del_sub, items[i])
    THEN CHOOSE i \in DOMAIN items :
            /\ ~_check_missing_subscriber(del_sub, items[i])
            /\ \A j \in 1..(i - 1) : _check_missing_subscriber(del_sub, items[j])
    ELSE 0

RemoveAt(s, i) == [j \in 1..(Len(s) - 1) |-> IF j < i THEN s[j] ELSE s[j + 1]]

\* faulty variant: the new member replaces the collection instead of joining it
add_subscriber_overwrite(email, raw_data) ==
    IF ~ValidEmail(email) \/ ~Resolves(email)
    THEN [raised |-> TRUE, flag |-> FALSE, raw_data |-> raw_data]
    ELSE LET new_subscriber == getOwnedBy(email)
             existed_flag == \E i \in DOMAIN raw_data.subs.items :
                                 _check_exist_subscriber(new_subscriber, raw_data.subs.items[i])
         IN  [raised |-> FALSE, flag |-> existed_flag,
              raw_data |-> IF existed_flag THEN raw_data
                           ELSE [xmlns |-> TRUE, subs |-> Dict(Member(new_subscriber.url))]]

\* _add_subscriber: [raised, flag, raw_data]
_add_subscriber(email, raw_data) ==
    IF ~ValidEmail(email) \/ ~Resolves(email)
    THEN [raised |-> TRUE, flag |-> FALSE, raw_data |-> raw_data]
    ELSE LET new_subscriber == getOwnedBy(email)
             new_sub == Member(new_subscriber.url)
             subs == raw_data.subs
         IN  IF subs.shape = "absent"
             THEN [raised |-> FALSE, flag |-> FALSE,
                   raw_data |-> [xmlns |-> TRUE, subs |-> Dict(new_sub)]]
             ELSE IF subs.shape = "dict"
             THEN LET existed_flag == _check_exist_subscriber(new_subscriber, subs.items[1])
                  IN  [raised |-> FALSE, flag |-> existed_flag,
                       raw_data |-> IF existed_flag THEN raw_data
                                    ELSE [raw_data EXCEPT !.subs = List(<<subs.items[1], new_sub>>)]]
             ELSE LET existed_flag ==
                          \E i \in DOMAIN subs.items :
                              _check_exist_subscriber(new_subscriber, subs.items[i])
                  IN  [raised |-> FALSE, flag |-> existed_flag,
                       raw_data |-> IF existed_flag THEN raw_data
                                    ELSE [raw_data EXCEPT !.subs = List(Append(subs.items, new_sub))]]

\* faulty variant: a list left with one member is not collapsed (lines 326-328 missing)
remove_subscriber_no_collapse(email, raw_data) ==
    IF ~ValidEmail(email) \/ ~Resolves(email)
    THEN [raised |-> TRUE, flag |-> TRUE, raw_data |-> raw_data]
    ELSE LET del_sub == getOwnedBy(email)
             subs == raw_data.subs
             k == FirstMatch(del_sub, subs.items)
         IN  IF k = 0
             THEN [raised |-> FALSE, flag |-> TRUE, raw_data |-> raw_data]
             ELSE [raised |-> FALSE, flag |-> FALSE,
                   raw_data |-> [raw_data EXCEPT !.subs =
                                    IF subs.shape = "dict" THEN Absent
                                    ELSE List(RemoveAt(subs.items, k))]]

\* _remove_subscriber: [raised, flag, raw_data]
_remove_subscriber(email, raw_data) ==
    IF ~ValidEmail(email) \/ ~Resolves(email)
    THEN [raised |-> TRUE, flag |-> TRUE, raw_data |-> raw_data]
    ELSE LET del_sub == getOwnedBy(email)
             subs == raw_data.subs
         IN  IF subs.shape = "absent"
             THEN [raised |-> FALSE, flag |-> TRUE, raw_data |-> raw_data]
             ELSE IF subs.shape = "dict"
             THEN LET missing_flag == _check_missing_subscriber(del_sub, subs.items[1])
                  IN  [raised |-> FALSE, flag |-> missing_flag,
                       raw_data |-> IF missing_flag THEN raw_data
                                    ELSE [raw_data EXCEPT !.subs = Absent]]
             ELSE LET k == FirstMatch(del_sub, subs.items)
                      rest == RemoveAt(subs.items, k)
                  IN  IF k = 0
                      THEN [raised |-> FALSE, flag |-> TRUE, raw_data |-> raw_data]
                      ELSE [raised |-> FALSE, flag |-> FALSE,
                            raw_data |-> [raw_data EXCEPT !.subs =
                                             IF Len(rest) = 1 THEN Dict(rest[1])
                                             ELSE List(rest)]]


RECURSIVE AddLoopOr(_, _, _, _)
\* faulty variant: the overall flag is the OR of the per-member flags
AddLoopOr(emails_list, i, existed_flags, raw_data) ==
    IF i > Len(emails_list)
    THEN [raised |-> FALSE, flags |-> existed_flags, raw_data |-> raw_data]
    ELSE LET r == _add_subscriber(emails_list[i], raw_data)
         IN  IF r.raised
             THEN [raised |-> TRUE, flags |-> existed_flags, raw_data |-> r.raw_data]
             ELSE AddLoopOr(emails_list, i + 1, existed_flags \/ r.flag, r.raw_data)

RECURSIVE AddLoop(_, _, _, _)
\* the loop of addSubscribers (lines 172-174), from the i-th email on
AddLoop(emails_list, i, existed_flags, raw_data) ==
    IF i > Len(emails_list)
    THEN [raised |-> FALSE, flags |-> existed_flags, raw_data |-> raw_data]
    ELSE LET r == _add_subscriber(emails_list[i], raw_data)
         IN  IF r.raised
             THEN [raised |-> TRUE, flags |-> existed_flags, raw_data |-> r.raw_data]
             ELSE AddLoop(emails_list, i + 1, existed_flags /\ r.flag, r.raw_data)

RECURSIVE RemoveLoopShort(_, _, _, _)
\* faulty variant: once a member was removed the later emails are not scanned
RemoveLoopShort(emails_list, i, missing_flags, raw_data) ==
    IF i > Len(emails_list) \/ ~missing_flags
    THEN [raised |-> FALSE, flags |-> missing_flags, raw_data |-> raw_data]
    ELSE LET r == _remove_subscriber(emails_list[i], raw_data)
         IN  IF r.raised
             THEN [raised |-> TRUE, flags |-> missing_flags, raw_data |-> r.raw_data]
             ELSE RemoveLoopShort(emails_list, i + 1, missing_flags /\ r.flag, r.raw_data)

RECURSIVE RemoveLoop(_, _, _, _)
\* the loop of removeSubscribers (lines 220-222), from the i-th email on
RemoveLoop(emails_list, i, missing_flags, raw_data) ==
    IF i > Len(emails_list)
    THEN [raised |-> FALSE, flags |-> missing_flags, raw_data |-> raw_data]
    ELSE LET r == _remove_subscriber(emails_list[i], raw_data)
         IN  IF r.raised
             THEN [raised |-> TRUE, flags |-> missing_flags, raw_data |-> r.raw_data]
             ELSE RemoveLoop(emails_list, i + 1, missing_flags /\ r.flag, r.raw_data)

\* the overall flag each batch starts from (lines 169 and 217)
AddFlagsStart == FALSE
RemoveFlagsStart == TRUE

(***************************************************************************)
(* Headers are maps from header name to value.                             *)
(***************************************************************************)
SetHeader(h, k, v) == (k :> v) @@ h

OSLC_CR_RDF == "application/rdf+xml"

ClientHeaders == ("Content-Type" :> "text/xml") @@ ("Accept" :> "text/xml")

\* faulty variant: the call works on the client's map itself
deepcopy_aliased(shared, headers) == headers

\* lines 103 and 242, copy.deepcopy: the client's map after a call has set
\* headers in its copy
deepcopy(shared, headers) == shared

\* lines 242-245: the copy of the client's headers a subscriber call sends
SubscribeHeaders(shared) ==
    SetHeader(SetHeader(SetHeader(shared, "Content-Type", OSLC_CR_RDF),
                        "Accept", OSLC_CR_RDF),
              "OSLC-Core-Version", "2.0")

\* faulty variant: the ETag of the response is not kept
perform_subscribe_no_if_match(shared, resp) ==
    [headers |-> SubscribeHeaders(shared), raw_data |-> parse(resp.content)]

\* lines 249-251: the headers and the snapshot _perform_subscribe returns
_perform_subscribe(shared, resp) ==
    [headers |-> SetHeader(SubscribeHeaders(shared), "If-Match", resp.etag),
     raw_data |-> parse(resp.content)]

\* faulty variant: the PUT is sent with the client's headers, not the call's
update_subscribe_client_headers(headers, raw_data) ==
    [headers |-> ClientHeaders, data |-> unparse(raw_data)]

\* lines 231-237: the PUT request of _update_subscribe
_update_subscribe(headers, raw_data) ==
    [headers |-> headers, data |-> unparse(raw_data)]

(***************************************************************************)
(* The transport and the server behind it.                                 *)
(***************************************************************************)
\* GET of the subscriber-scoped representation; ok = FALSE is a transport failure
GetSubscribers(ok) == [ok |-> ok, etag |-> srvEtag, content |-> srvSubs]

\* the status of a conditional write: 500 when the transport fails, 412 when its
\* If-Match is not the current ETag, 200 when it is applied
WriteStatus(headers, etag, ok) ==
    IF ~ok THEN 500
    ELSE IF "If-Match" \in DOMAIN headers /\ headers["If-Match"] # etag THEN 412
    ELSE 200

\* the status of a GET
GetStatus(ok) == IF ok THEN 200 ELSE 500

(***************************************************************************)
(* Records of calls.                                                       *)
(***************************************************************************)
NoId == [type |-> "none", val |-> 0, text |-> <<>>]

NewRec(p, op) ==
    [proc |-> p, op |-> op, emails |-> <<>>, iterable |-> TRUE,
     msg |-> <<>>, cid |-> NoId,
     gets |-> 0, puts |-> 0, posts |-> 0,
     fetchedEtag |-> -1, fetched |-> Absent, fetchedCount |-> "",
     reqHeaders |-> ClientHeaders, snapshot |-> Absent, payload |-> <<>>,
     commentUrl |-> <<>>,
     status |-> 0, outcome |-> "pending", srvAfter |-> <<>>, cmtAfter |-> 0]

Idle == [pc |-> "idle", rec |-> NewRec(0, "none"), raw_data |-> parse(<<>>)]

\* the call of p ends: its record joins the history
Finish(p, rec) ==
    /\ log' = Append(log, rec)
    /\ call' = [call EXCEPT ![p] = Idle]

\* the call of p goes on to its write
Continue(p, pc, rec, raw_data) ==
    /\ call' = [call EXCEPT ![p] = [pc |-> pc, rec |-> rec, raw_data |-> raw_data]]
    /\ log' = log

CanStart(p) == call[p].pc = "idle" /\ budget > 0

\* faulty variant: what the loop had reached when it raised is written
AfterMutationWriteOnError(p, rec0, resp, f, r, noop) ==
    LET rec == [rec0 EXCEPT !.fetchedEtag = resp.etag,
                            !.fetched = f.raw_data.subs,
                            !.reqHeaders = f.headers,
                            !.snapshot = r.raw_data.subs,
                            !.srvAfter = srvSubs, !.cmtAfter = cmtCount]
    IN  IF ~r.raised /\ noop THEN Finish(p, [rec EXCEPT !.outcome = "return"])
        ELSE Continue(p, "put", rec, r.raw_data)

\* lines 144-149, 171-179, 192-197, 219-227 after the GET succeeded: r is the
\* outcome of the scan and mutation, noop the flag that skips the write
AfterMutation(p, rec0, resp, f, r, noop) ==
    LET rec == [rec0 EXCEPT !.fetchedEtag = resp.etag,
                            !.fetched = f.raw_data.subs,
                            !.reqHeaders = f.headers,
                            !.snapshot = r.raw_data.subs,
                            !.srvAfter = srvSubs, !.cmtAfter = cmtCount]
    IN  IF r.raised THEN Finish(p, [rec EXCEPT !.outcome = "BadValue"])
        ELSE IF noop THEN Finish(p, [rec EXCEPT !.outcome = "return"])
        ELSE Continue(p, "put", rec, r.raw_data)

\* a subscriber call up to its PUT: the GET of _perform_subscribe, then body
SubscriberCall(p, rec0, getOk, op, emails_list) ==
    LET resp == GetSubscribers(getOk)
        rec1 == [rec0 EXCEPT !.gets = @ + 1, !.status = GetStatus(getOk),
                             !.srvAfter = srvSubs, !.cmtAfter = cmtCount]
    IN  /\ budget' = budget - 1
        /\ UNCHANGED <<srvSubs, srvEtag, cmtCount, cmtEtag>>
        /\ rtcHeaders' = deepcopy(rtcHeaders,
                                  IF resp.ok THEN _perform_subscribe(rtcHeaders, resp).headers
                                  ELSE SubscribeHeaders(rtcHeaders))
        /\ IF ~resp.ok THEN Finish(p, [rec1 EXCEPT !.outcome = "HTTPError"])
           ELSE LET f == _perform_subscribe(rtcHeaders, resp)
                IN  CASE op = "addSubscriber" ->
                            LET r == _add_subscriber(emails_list[1], f.raw_data)
                            IN  AfterMutation(p, rec1, resp, f, r, r.flag)
                      [] op = "removeSubscriber" ->
                            LET r == _remove_subscriber(emails_list[1], f.raw_data)
                            IN  AfterMutation(p, rec1, resp, f, r, r.flag)
                      [] op = "addSubscribers" ->
                            LET r == AddLoop(emails_list, 1, AddFlagsStart, f.raw_data)
                            IN  AfterMutation(p, rec1, resp, f, r, r.flags)
                      [] op = "removeSubscribers" ->
                            LET r == RemoveLoop(emails_list, 1, RemoveFlagsStart, f.raw_data)
                            IN  AfterMutation(p, rec1, resp, f, r, r.flags)

\* faulty variant: the argument is looked at after the fetch
NotIterableAfterFetch(p, rec0) ==
    /\ budget' = budget - 1
    /\ UNCHANGED <<srvSubs, srvEtag, cmtCount, cmtEtag, rtcHeaders>>
    /\ Finish(p, [rec0 EXCEPT !.iterable = FALSE, !.outcome = "BadValue",
                              !.gets = @ + 1, !.status = 200,
                              !.srvAfter = srvSubs, !.cmtAfter = cmtCount])

\* lines 163-166 and 211-214: a batch argument that is not iterable
NotIterable(p, rec0) ==
    /\ budget' = budget - 1
    /\ UNCHANGED <<srvSubs, srvEtag, cmtCount, cmtEtag, rtcHeaders>>
    /\ Finish(p, [rec0 EXCEPT !.iterable = FALSE, !.outcome = "BadValue",
                              !.srvAfter = srvSubs, !.cmtAfter = cmtCount])

addSubscriber(p, email, getOk) ==
    /\ CanStart(p)
    /\ SubscriberCall(p, [NewRec(p, "addSubscriber") EXCEPT !.emails = <<email>>],
                      getOk, "addSubscriber", <<email>>)

removeSubscriber(p, email, getOk) ==
    /\ CanStart(p)
    /\ SubscriberCall(p, [NewRec(p, "removeSubscriber") EXCEPT !.emails = <<email>>],
                      getOk, "removeSubscriber", <<email>>)

addSubscribers(p, emails_list, getOk) ==
    /\ CanStart(p)
    /\ IF ~emails_list.iterable THEN NotIterable(p, NewRec(p, "addSubscribers"))
       ELSE SubscriberCall(p, [NewRec(p, "addSubscribers") EXCEPT !.emails = emails_list.items],
                           getOk, "addSubscribers", emails_list.items)

removeSubscribers(p, emails_list, getOk) ==
    /\ CanStart(p)
    /\ IF ~emails_list.iterable THEN NotIterable(p, NewRec(p, "removeSubscribers"))
       ELSE SubscriberCall(p, [NewRec(p, "removeSubscribers") EXCEPT !.emails = emails_list.items],
                           getOk, "removeSubscribers", emails_list.items)

\* faulty variant: a PUT that fails is followed by a second GET and a second PUT
PutSubscribersRetry(p, putOk) ==
    /\ call[p].pc = "put"
    /\ LET req == _update_subscribe(call[p].rec.reqHeaders, call[p].raw_data)
           status == WriteStatus(req.headers, srvEtag, putOk)
           again == IF status = 200 THEN 0 ELSE 1
           after == req.data
       IN  /\ srvSubs' = after
           /\ srvEtag' = srvEtag + 1
           /\ Finish(p, [call[p].rec EXCEPT !.puts = @ + 1 + again,
                                            !.gets = @ + again,
                                            !.reqHeaders = req.headers,
                                            !.payload = req.data,
                                            !.status = 200,
                                            !.outcome = "return",
                                            !.srvAfter = after])
    /\ UNCHANGED <<cmtCount, cmtEtag, rtcHeaders, budget>>

\* the PUT of _update_subscribe and the return of the call that issued it
PutSubscribers(p, putOk) ==
    /\ call[p].pc = "put"
    /\ LET req == _update_subscribe(call[p].rec.reqHeaders, call[p].raw_data)
           status == WriteStatus(req.headers, srvEtag, putOk)
           after == IF status = 200 THEN req.data ELSE srvSubs
       IN  /\ srvSubs' = after
           /\ srvEtag' = IF status = 200 THEN srvEtag + 1 ELSE srvEtag
           /\ Finish(p, [call[p].rec EXCEPT !.puts = @ + 1,
                                            !.reqHeaders = req.headers,
                                            !.payload = req.data,
                                            !.status = status,
                                            !.outcome = IF status = 200 THEN "return"
                                                        ELSE "HTTPError",
                                            !.srvAfter = after])
    /\ UNCHANGED <<cmtCount, cmtEtag, rtcHeaders, budget>>


(***************************************************************************)
(* Comments.  A URL is the sequence of its path segments.                  *)
(***************************************************************************)
WorkitemUrl == <<"workitem">>

Msgs == {<<"o", "k">>, <<"<", "b", ">">>}

\* GET of the comments collection: totalCount is an attribute, hence a string
GetComments(ok) == [ok |-> ok, etag |-> cmtEtag, totalCount |-> ToString(cmtCount)]

\* faulty variant: the URL the POST is sent to is taken for the comment's
comment_url_of_request(comments_url, total_cnt) == Append(comments_url, "oslc:comment")

\* lines 110-112: the URL of the new comment ends in the fetched total count
CommentUrl(comments_url, total_cnt) == Append(comments_url, total_cnt)

\* lines 85-99 and 114: the RDF document with its two slots filled
origin_comment(comment_url, msg) == [about |-> comment_url, description |-> msg]

\* faulty variant: the POST is sent without the ETag of the GET
comment_headers_no_if_match(shared, resp) ==
    SetHeader(SetHeader(SetHeader(shared, "Content-Type", OSLC_CR_RDF),
                        "Accept", OSLC_CR_RDF),
              "OSLC-Core-Version", "2.0")

\* lines 116-119: the headers of the POST
CommentHeaders(shared, resp) ==
    SetHeader(SetHeader(SetHeader(SetHeader(shared, "Content-Type", OSLC_CR_RDF),
                                  "Accept", OSLC_CR_RDF),
                        "OSLC-Core-Version", "2.0"),
              "If-Match", resp.etag)

\* addComment up to its POST (lines 101-121)
addComment(p, msg, getOk) ==
    /\ CanStart(p)
    /\ budget' = budget - 1
    /\ UNCHANGED <<srvSubs, srvEtag, cmtCount, cmtEtag>>
    /\ rtcHeaders' = deepcopy(rtcHeaders,
                              IF getOk THEN CommentHeaders(rtcHeaders, GetComments(getOk))
                              ELSE rtcHeaders)
    /\ LET comments_url == Append(WorkitemUrl, "rtc_cm:comments")
           resp == GetComments(getOk)
           rec1 == [NewRec(p, "addComment") EXCEPT !.msg = msg, !.gets = @ + 1,
                                                   !.status = GetStatus(getOk),
                                                   !.srvAfter = srvSubs,
                                                   !.cmtAfter = cmtCount]
       IN  IF ~resp.ok THEN Finish(p, [rec1 EXCEPT !.outcome = "HTTPError"])
           ELSE LET total_cnt == resp.totalCount
                    comment_url == CommentUrl(comments_url, total_cnt)
                    comment_msg == origin_comment(comment_url, msg)
                    headers == CommentHeaders(rtcHeaders, resp)
                IN  Continue(p, "post",
                             [rec1 EXCEPT !.fetchedEtag = resp.etag,
                                          !.fetchedCount = total_cnt,
                                          !.reqHeaders = headers,
                                          !.payload = comment_msg,
                                          !.commentUrl = comment_url],
                             parse(<<>>))

\* the POST of addComment (lines 123-133) and the return of the call
PostComment(p, postOk) ==
    /\ call[p].pc = "post"
    /\ LET status == WriteStatus(call[p].rec.reqHeaders, cmtEtag, postOk)
           count == IF status = 200 THEN cmtCount + 1 ELSE cmtCount
       IN  /\ cmtCount' = count
           /\ cmtEtag' = IF status = 200 THEN cmtEtag + 1 ELSE cmtEtag
           /\ Finish(p, [call[p].rec EXCEPT !.posts = @ + 1,
                                            !.status = status,
                                            !.outcome = IF status = 200 THEN "return"
                                                        ELSE "HTTPError",
                                            !.cmtAfter = count])
    /\ UNCHANGED <<srvSubs, srvEtag, rtcHeaders, budget>>

\* a comment id argument: an int, a string, a bool or None
IntId(n) == [type |-> "int", val |-> n, text |-> <<>>]
StrId(t) == [type |-> "str", val |-> 0, text |-> t]
BoolId(b) == [type |-> "bool", val |-> b, text |-> <<>>]

CommentIds == {IntId(0), IntId(-1), IntId(MaxComments + 1), StrId(<<"1">>),
               StrId(<<"a", "b">>), StrId(<<>>), BoolId(1), NoId}

DigitOf(c) ==
    CASE c = "0" -> 0 [] c = "1" -> 1 [] c = "2" -> 2 [] c = "3" -> 3 [] c = "4" -> 4
      [] c = "5" -> 5 [] c = "6" -> 6 [] c = "7" -> 7 [] c = "8" -> 8 [] c = "9" -> 9
      [] OTHER -> -1

RECURSIVE DigitsValue(_)
DigitsValue(t) ==
    IF Len(t) = 0 THEN 0
    ELSE 10 * DigitsValue(SubSeq(t, 1, Len(t) - 1)) + DigitOf(t[Len(t)])

\* int(text): [ok, val]; a sign is allowed, a digit is required
IntOfStr(t) ==
    LET signed == Len(t) > 0 /\ t[1] \in {"-", "+"}
        digits == IF signed THEN Tail(t) ELSE t
        ok == Len(digits) > 0 /\ \A i \in DOMAIN digits : DigitOf(digits[i]) >= 0
    IN  [ok |-> ok,
         val |-> IF ~ok THEN 0
                 ELSE IF signed /\ t[1] = "-" THEN 0 - DigitsValue(digits)
                 ELSE DigitsValue(digits)]

\* faulty variant: without the test of line 59 a bool passes as the int it is
check_comment_id_bool_as_int(comment_id) ==
    CASE comment_id.type = "bool" -> [ok |-> TRUE, val |-> comment_id.val]
      [] comment_id.type = "str" -> IntOfStr(comment_id.text)
      [] comment_id.type = "int" -> [ok |-> TRUE, val |-> comment_id.val]
      [] OTHER -> [ok |-> FALSE, val |-> 0]

\* lines 58-66: [ok, val], ok = FALSE when BadValue is raised
CheckCommentId(comment_id) ==
    CASE comment_id.type = "bool" -> [ok |-> FALSE, val |-> 0]
      [] comment_id.type = "str" -> IntOfStr(comment_id.text)
      [] comment_id.type = "int" -> [ok |-> TRUE, val |-> comment_id.val]
      [] OTHER -> [ok |-> FALSE, val |-> 0]

\* GET of one comment: the server holds the comments 0 .. totalCount - 1
CommentStatus(comment_url) ==
    IF \E k \in 0..(cmtCount - 1) : comment_url[Len(comment_url)] = ToString(k)
    THEN 200 ELSE 404

\* lines 70-75: what the failed construction of the Comment is turned into
CommentFetchError == "BadValue"

getCommentByID(p, comment_id) ==
    /\ CanStart(p)
    /\ budget' = budget - 1
    /\ UNCHANGED <<srvSubs, srvEtag, cmtCount, cmtEtag, rtcHeaders>>
    /\ LET rec0 == [NewRec(p, "getCommentByID") EXCEPT !.cid = comment_id,
                                                       !.srvAfter = srvSubs,
                                                       !.cmtAfter = cmtCount]
           chk == CheckCommentId(comment_id)
       IN  IF ~chk.ok THEN Finish(p, [rec0 EXCEPT !.outcome = "BadValue"])
           ELSE LET comment_url == WorkitemUrl \o <<"rtc_cm:comments", ToString(chk.val)>>
                    status == CommentStatus(comment_url)
                    rec1 == [rec0 EXCEPT !.gets = @ + 1, !.status = status,
                                         !.commentUrl = comment_url]
                IN  IF status = 200
                    THEN Finish(p, [rec1 EXCEPT !.outcome = "return"])
                    ELSE Finish(p, [rec1 EXCEPT !.outcome = CommentFetchError])

(***************************************************************************)
(* Specifications.                                                         *)
(***************************************************************************)
InitSubs == {s \in SeqsUpTo(MemberUrls, MaxMembers) : Ordered(s)}

\* the emails of a batch: members, a newcomer, a malformed one
BatchEmails == {EmailA, EmailB, EmailNoAt}

\* an emails_list argument: a list of emails, or a value that is not iterable
Batches ==
    {[iterable |-> TRUE, items |-> es] : es \in SeqsUpTo(BatchEmails, MaxBatch)}
        \cup {[iterable |-> FALSE, items |-> <<>>]}

InitWith(n) ==
    /\ srvSubs \in InitSubs
    /\ srvEtag = 0
    /\ cmtEtag = 0
    /\ rtcHeaders = ClientHeaders
    /\ call = [p \in Procs |-> Idle]
    /\ log = <<>>
    /\ budget = n

\* one client thread, every operation and every kind of argument
Init ==
    /\ InitWith(MaxCalls)
    /\ cmtCount \in 0..MaxComments
    /\ cmtCount > 0 => srvSubs = <<>>

Next ==
    \/ \E e \in Emails, ok \in BOOLEAN : addSubscriber(1, e, ok)
    \/ \E e \in Emails, ok \in BOOLEAN : removeSubscriber(1, e, ok)
    \/ \E es \in Batches, ok \in BOOLEAN : addSubscribers(1, es, ok)
    \/ \E es \in Batches, ok \in BOOLEAN : removeSubscribers(1, es, ok)
    \/ \E ok \in BOOLEAN : PutSubscribers(1, ok)
    \/ \E m \in Msgs, ok \in BOOLEAN : addComment(1, m, ok)
    \/ \E ok \in BOOLEAN : PostComment(1, ok)
    \/ \E c \in CommentIds : getCommentByID(1, c)

Spec == Init /\ [][Next]_vars

\* one client thread calling addSubscriber and removeSubscriber one after another
InitSeq == InitWith(MaxSeqCalls) /\ cmtCount = 0

NextSeq ==
    \/ \E e \in GoodEmails, ok \in BOOLEAN : addSubscriber(1, e, ok)
    \/ \E e \in GoodEmails, ok \in BOOLEAN : removeSubscriber(1, e, ok)
    \/ \E ok \in BOOLEAN : PutSubscribers(1, ok)

SpecSeq == InitSeq /\ [][NextSeq]_vars

\* two client threads whose subscriber calls interleave
InitConc == InitWith(MaxConcCalls) /\ cmtCount = 0

NextConc ==
    \/ \E p \in Procs, e \in GoodEmails, ok \in BOOLEAN : addSubscriber(p, e, ok)
    \/ \E p \in Procs, e \in GoodEmails, ok \in BOOLEAN : removeSubscriber(p, e, ok)
    \/ \E p \in Procs, ok \in BOOLEAN : PutSubscribers(p, ok)

SpecConc == InitConc /\ [][NextConc]_vars

\* one thread adds comments and subscribers in sequence, no other writer
InitMix == InitWith(MaxSeqCalls) /\ srvSubs = <<>> /\ cmtCount \in 0..MaxComments

NextMix ==
    \/ \E m \in Msgs, ok \in BOOLEAN : addComment(1, m, ok)
    \/ \E ok \in BOOLEAN : PostComment(1, ok)
    \/ \E e \in GoodEmails, ok \in BOOLEAN : addSubscriber(1, e, ok)
    \/ \E ok \in BOOLEAN : PutSubscribers(1, ok)

SpecMix == InitMix /\ [][NextMix]_vars

\* the emails of a batch that fails: a valid one, a malformed one, one the
\* directory cannot resolve
ErrEmails == {EmailA, EmailNoAt, EmailUnknown}

\* one thread, batches that may fail at any position
InitErr == InitWith(MaxCalls) /\ cmtCount = 0

NextErr ==
    \/ \E es \in SeqsUpTo(ErrEmails, MaxBatch), ok \in BOOLEAN :
           addSubscribers(1, [iterable |-> TRUE, items |-> es], ok)
    \/ \E es \in SeqsUpTo(ErrEmails, MaxBatch), ok \in BOOLEAN :
           removeSubscribers(1, [iterable |-> TRUE, items |-> es], ok)
    \/ \E ok \in BOOLEAN : PutSubscribers(1, ok)

SpecErr == InitErr /\ [][NextErr]_vars

\* two threads add comments
InitCmt == InitWith(MaxConcCalls) /\ srvSubs = <<>> /\ cmtCount \in 0..MaxComments

NextCmt ==
    \/ \E p \in Procs, m \in Msgs, ok \in BOOLEAN : addComment(p, m, ok)
    \/ \E p \in Procs, ok \in BOOLEAN : PostComment(p, ok)

SpecCmt == InitCmt /\ [][NextCmt]_vars


(***************************************************************************)
(* Properties.  They are stated over the records of the finished calls.    *)
(***************************************************************************)
Recs == {log[i] : i \in DOMAIN log}

SubscriberOps == {"addSubscriber", "addSubscribers", "removeSubscriber", "removeSubscribers"}
MutationOps == SubscriberOps \cup {"addComment"}

\* the GET of the call returned a representation
Fetched(rec) == rec.gets > 0 /\ rec.fetchedEtag >= 0

FetchedUrls(rec) == {rec.fetched.items[i].resource : i \in DOMAIN rec.fetched.items}
EmailUrls(rec) == {getOwnedBy(rec.emails[i]).url : i \in DOMAIN rec.emails}
AllValid(rec) == \A i \in DOMAIN rec.emails : ValidEmail(rec.emails[i])
Range(s) == {s[i] : i \in DOMAIN s}

\* C1: a subscriber call given an invalid email (not a string, or without '@')
\* raises BadValue and has issued no GET and no PUT (stated for the calls no
\* transport failure interferes with).
C1_InvalidEmailBeforeNetwork ==
    \A rec \in Recs :
        (rec.op \in SubscriberOps /\ rec.iterable /\ ~AllValid(rec) /\ rec.status # 500)
            => (rec.outcome = "BadValue" /\ rec.gets = 0 /\ rec.puts = 0)

\* C2: a batch add whose emails all resolve to members of the fetched
\* collection issues no PUT (stated for the batches of one email or more).
C2_AllPresentBatchNoWrite ==
    \A rec \in Recs :
        (rec.op = "addSubscribers" /\ rec.iterable /\ Len(rec.emails) > 0
            /\ AllValid(rec) /\ Fetched(rec)
            /\ EmailUrls(rec) \subseteq FetchedUrls(rec))
            => rec.puts = 0

\* two calls of addSubscriber, one after the other on the same thread, with the
\* same email: the first found the member absent and its write was applied, the
\* second fetched
AddedTwice(i) ==
    /\ i + 1 \in DOMAIN log
    /\ log[i].op = "addSubscriber" /\ log[i + 1].op = "addSubscriber"
    /\ log[i].proc = log[i + 1].proc
    /\ log[i].emails = log[i + 1].emails
    /\ Fetched(log[i]) /\ ~(EmailUrls(log[i]) \subseteq FetchedUrls(log[i]))
    /\ log[i].outcome = "return"
    /\ Fetched(log[i + 1])

\* C3: addSubscriber called twice in sequence with the same email writes once:
\* the first call issues the one PUT, the second finds the member and returns
\* without a PUT.
C3_AddTwiceOneWrite ==
    \A i \in DOMAIN log :
        AddedTwice(i) =>
            /\ log[i].puts = 1
            /\ log[i + 1].puts = 0
            /\ log[i + 1].outcome = "return"
            /\ log[i].puts + log[i + 1].puts = 1

C3_Witness ==
    \E i \in DOMAIN log : AddedTwice(i) /\ log[i].fetched.shape = "list"

\* removeSubscriber of a valid email that is no member of the fetched collection
NonMemberRemove(rec) ==
    /\ rec.op = "removeSubscriber" /\ AllValid(rec) /\ Fetched(rec)
    /\ ~(EmailUrls(rec) \subseteq FetchedUrls(rec))

\* C4: removeSubscriber of a non-member issues no PUT and returns normally,
\* whether the property is absent, a bare mapping or a list.
C4_RemoveNonMemberNoWrite ==
    \A rec \in Recs : NonMemberRemove(rec) => (rec.puts = 0 /\ rec.outcome = "return")

C4_Witness ==
    \E rec \in Recs : NonMemberRemove(rec) /\ rec.fetched.shape = "list"

\* two calls that fetched the same ETag and both issued a PUT, the first of
\* which was applied
Raced(i, j) ==
    /\ i < j
    /\ log[i].op \in SubscriberOps /\ log[j].op \in SubscriberOps
    /\ Fetched(log[i]) /\ Fetched(log[j])
    /\ log[i].fetchedEtag = log[j].fetchedEtag
    /\ log[i].puts = 1 /\ log[j].puts = 1
    /\ log[i].status = 200

\* C5: of two concurrent calls that fetched the same ETag, the one whose PUT
\* comes second fails its If-Match precondition (status 412, unless the
\* transport already failed the request): the PUT leaves the server collection
\* as it was (as the first writer wrote it, when the PUTs follow one another),
\* and the call raises after one GET and one PUT.
C5_SecondWriterFails ==
    \A i, j \in DOMAIN log :
        Raced(i, j) =>
            /\ log[j].status \in {412, 500}
            /\ log[j].outcome = "HTTPError"
            /\ log[j].gets = 1 /\ log[j].puts = 1
            /\ log[j].srvAfter = log[j - 1].srvAfter
            /\ (j = i + 1 => log[j].srvAfter = log[i].payload)

C5_Witness ==
    \E i, j \in DOMAIN log :
        Raced(i, j) /\ j = i + 1 /\ log[i].proc # log[j].proc
            /\ log[j].status = 412 /\ log[j].payload # log[i].payload

MixedAdd(rec) ==
    /\ rec.op = "addSubscribers" /\ rec.iterable /\ AllValid(rec) /\ Fetched(rec)
    /\ ~(EmailUrls(rec) \subseteq FetchedUrls(rec))

\* C7: a batch add with at least one new email issues one GET and one PUT, and
\* the collection it writes holds every member fetched and every email
\* requested, each once.
C7_BatchAddOneWrite ==
    \A rec \in Recs :
        MixedAdd(rec) =>
            /\ rec.gets = 1 /\ rec.puts = 1
            /\ Range(rec.payload) = FetchedUrls(rec) \cup EmailUrls(rec)
            /\ Len(rec.payload) = Cardinality(FetchedUrls(rec) \cup EmailUrls(rec))

C7_Witness ==
    \E rec \in Recs :
        /\ MixedAdd(rec) /\ Len(rec.emails) = 2
        /\ getOwnedBy(rec.emails[1]).url \in FetchedUrls(rec)
        /\ getOwnedBy(rec.emails[2]).url \notin FetchedUrls(rec)

\* the shape is the one of the number of members
Canonical(subs) ==
    /\ subs.shape = "absent" <=> Len(subs.items) = 0
    /\ subs.shape = "dict" <=> Len(subs.items) = 1
    /\ subs.shape = "list" <=> Len(subs.items) >= 2

\* C8: the subscribers property of every snapshot that is written is absent
\* with no member, a bare mapping with one, a list with two or more.
C8_WrittenShape ==
    /\ \A rec \in Recs :
          (rec.op \in SubscriberOps /\ rec.puts > 0) => Canonical(rec.snapshot)
    /\ \A p \in Procs : call[p].pc = "put" => Canonical(call[p].raw_data.subs)

C8_Witness ==
    \E rec \in Recs :
        /\ rec.op = "removeSubscribers" /\ rec.puts = 1
        /\ rec.fetched.shape = "list" /\ Len(rec.fetched.items) = 3
        /\ rec.snapshot.shape = "dict"

\* addSubscriber(a), addSubscriber(b), removeSubscriber(a) one after the other
\* on one thread, from a work item without subscribers, each returning
Scenario(i, a, b) ==
    /\ i + 2 \in DOMAIN log
    /\ a # b
    /\ log[i].proc = log[i + 1].proc /\ log[i + 1].proc = log[i + 2].proc
    /\ log[i].op = "addSubscriber" /\ log[i].emails = <<a>>
    /\ log[i + 1].op = "addSubscriber" /\ log[i + 1].emails = <<b>>
    /\ log[i + 2].op = "removeSubscriber" /\ log[i + 2].emails = <<a>>
    /\ Fetched(log[i]) /\ log[i].fetched = Absent
    /\ \A k \in i..(i + 2) : log[k].outcome = "return"

\* C9: in that scenario each call issues one GET and one PUT, and the property
\* written is the bare mapping of a, then the list (a, b), then the bare
\* mapping of b.
C9_Scenario ==
    \A i \in DOMAIN log : \A a, b \in GoodEmails :
        Scenario(i, a, b) =>
            /\ \A k \in i..(i + 2) : log[k].gets = 1 /\ log[k].puts = 1
            /\ log[i].snapshot = Dict(Member(getOwnedBy(a).url))
            /\ log[i + 1].snapshot =
                  List(<<Member(getOwnedBy(a).url), Member(getOwnedBy(b).url)>>)
            /\ log[i + 2].snapshot = Dict(Member(getOwnedBy(b).url))

C9_Witness == \E i \in DOMAIN log : Scenario(i, EmailA, EmailB)

\* C10: getCommentByID of a valid id whose fetch meets a 404 raises NotFound.
C10_MissingCommentNotFound ==
    \A rec \in Recs :
        (rec.op = "getCommentByID" /\ CheckCommentId(rec.cid).ok /\ rec.status = 404)
            => rec.outcome = "NotFound"

\* a text of decimal digits, with or without a sign before them
Numeric(t) ==
    LET digits == IF Len(t) > 0 /\ t[1] \in {"-", "+"} THEN Tail(t) ELSE t
    IN  /\ Len(digits) > 0
        /\ \A i \in DOMAIN digits :
               digits[i] \in {"0", "1", "2", "3", "4", "5", "6", "7", "8", "9"}

LastSegment(url) == url[Len(url)]

\* C11: getCommentByID given a bool or a string that is no integer raises
\* BadValue without a GET; given an int (a negative one too) or a string that
\* is an integer it issues the GET of the URL whose last segment is that id.
C11_CommentIdValidation ==
    \A rec \in Recs :
        rec.op = "getCommentByID" =>
            /\ (rec.cid.type = "bool" \/ (rec.cid.type = "str" /\ ~Numeric(rec.cid.text)))
                   => (rec.outcome = "BadValue" /\ rec.gets = 0)
            /\ rec.cid.type = "int"
                   => (rec.gets = 1 /\ LastSegment(rec.commentUrl) = ToString(rec.cid.val))
            /\ rec.cid = StrId(<<"1">>)
                   => (rec.gets = 1 /\ LastSegment(rec.commentUrl) = "1")

C11_Witness ==
    /\ \E rec \in Recs : rec.op = "getCommentByID" /\ rec.cid = IntId(-1)
                              /\ rec.gets = 1 /\ LastSegment(rec.commentUrl) = "-1"
    /\ cmtCount > 0

\* an addComment whose POST the server applied
SuccessfulComment(rec) == rec.op = "addComment" /\ rec.posts = 1 /\ rec.status = 200

SuccessfulComments == SelectSeq(log, SuccessfulComment)

\* C12: the URL of the comment an addComment returns ends in the total count
\* its own GET read; the k successful calls of a thread that is the only
\* writer, begun at count n, get the ids n, n+1, ..., n+k-1 in turn and leave
\* the count at n+k.
C12_CommentPosition ==
    /\ \A rec \in Recs :
           (rec.op = "addComment" /\ rec.posts = 1)
               => LastSegment(rec.commentUrl) = rec.fetchedCount
    /\ LET done == SuccessfulComments
           n == done[1].cmtAfter - 1
       IN  Len(done) > 0 =>
               /\ \A k \in DOMAIN done :
                      LastSegment(done[k].commentUrl) = ToString(n + k - 1)
               /\ cmtCount = n + Len(done)

C12_Witness ==
    /\ Len(SuccessfulComments) = 3
    /\ LastSegment(SuccessfulComments[1].commentUrl) = "1"
    /\ LastSegment(SuccessfulComments[3].commentUrl) = "3"
    /\ cmtCount = 4

\* the characters that are markup in an XML document
Markup == {"<", ">", "&"}

\* C13: the document addComment POSTs holds no markup character that comes
\* from the comment text.
C13_TextEscaped ==
    \A rec \in Recs :
        (rec.op = "addComment" /\ rec.posts = 1)
            => \A i \in DOMAIN rec.payload.description :
                   rec.payload.description[i] \notin Markup

BatchOps == {"addSubscribers", "removeSubscribers"}

\* the record of the call that ends in this step
Ended == log'[Len(log')]

\* C14: a step in which addSubscribers or removeSubscribers, given an argument
\* that is not iterable, ends: the call raises BadValue, has issued no GET and
\* no PUT, and the server's collection and ETag are what they were.
C14_NonIterableBeforeNetwork ==
    [][(Len(log') = Len(log) + 1 /\ Ended.op \in BatchOps /\ ~Ended.iterable)
          => /\ Ended.outcome = "BadValue"
             /\ Ended.gets = 0 /\ Ended.puts = 0
             /\ srvSubs' = srvSubs /\ srvEtag' = srvEtag]_vars

C14_Witness ==
    /\ \E rec \in Recs : rec.op = "removeSubscribers" /\ ~rec.iterable
                              /\ rec.outcome = "BadValue" /\ rec.gets = 0
    /\ Len(srvSubs) > 1

\* a removeSubscribers of valid emails whose GET returned the collection
BatchRemove(rec) ==
    rec.op = "removeSubscribers" /\ rec.iterable /\ AllValid(rec) /\ Fetched(rec)

\* C15: removeSubscribers skips the PUT exactly when none of its emails is a
\* member of the fetched collection; its snapshot after the loop, and the
\* collection it PUTs, is the fetched collection without every requested
\* member, whatever the order of present and absent emails in the batch.
C15_BatchRemoveAll ==
    \A rec \in Recs :
        BatchRemove(rec) =>
            LET rest == FetchedUrls(rec) \ EmailUrls(rec)
            IN  /\ rec.puts = 0 <=> (EmailUrls(rec) \cap FetchedUrls(rec) = {})
                /\ {rec.snapshot.items[i].resource : i \in DOMAIN rec.snapshot.items} = rest
                /\ rec.puts = 1 => (Range(rec.payload) = rest
                                       /\ Len(rec.payload) = Cardinality(rest))

\* a batch of an absent email, then a present one, is written
C15_Witness ==
    \E rec \in Recs :
        /\ BatchRemove(rec) /\ Len(rec.emails) = 2
        /\ getOwnedBy(rec.emails[1]).url \notin FetchedUrls(rec)
        /\ getOwnedBy(rec.emails[2]).url \in FetchedUrls(rec)
        /\ rec.puts = 1 /\ rec.status = 200
        /\ rec.fetched.shape = "list" /\ Len(rec.payload) = 1

\* C16: a step in which addSubscribers or removeSubscribers ends after its GET
\* with a malformed or unresolvable email somewhere in its batch: the call
\* raises BadValue, has issued no PUT, and the server's collection and ETag are
\* what they were, whatever the loop had already changed in the snapshot.
C16_BatchErrorNoWrite ==
    [][(Len(log') = Len(log) + 1 /\ Ended.op \in BatchOps /\ Ended.iterable)
          => /\ (Fetched(Ended)
                    /\ \E i \in DOMAIN Ended.emails :
                           ~ValidEmail(Ended.emails[i]) \/ ~Resolves(Ended.emails[i]))
                    => Ended.outcome = "BadValue"
             /\ Ended.outcome = "BadValue"
                    => (Ended.puts = 0 /\ srvSubs' = srvSubs /\ srvEtag' = srvEtag)]_vars

\* the batch failed at its second email after the first had changed the snapshot
C16_Witness ==
    \E rec \in Recs :
        /\ rec.op = "addSubscribers" /\ Len(rec.emails) = 2
        /\ rec.emails[2] \in {EmailNoAt, EmailUnknown}
        /\ Fetched(rec) /\ rec.snapshot # rec.fetched
        /\ rec.outcome = "BadValue" /\ rec.puts = 0
        /\ FetchedUrls(rec) = Range(srvSubs)

NoDuplicate(s) == \A i, j \in DOMAIN s : i # j => s[i] # s[j]

\* C17: a subscriber call that fetched a collection without a duplicate member
\* reference leaves none in its snapshot, PUTs a collection without one, and a
\* batch add that names the same email more than once PUTs that member once;
\* the collection on the server never holds a member twice.
C17_NoDuplicateMember ==
    /\ NoDuplicate(srvSubs)
    /\ \A rec \in Recs :
           (rec.op \in SubscriberOps /\ Fetched(rec) /\ NoDuplicate(rec.fetched.items))
               => /\ NoDuplicate(rec.snapshot.items)
                  /\ rec.puts = 1 =>
                         /\ NoDuplicate(rec.payload)
                         /\ rec.op = "addSubscribers" => EmailUrls(rec) \subseteq Range(rec.payload)

\* a batch add of the same new email twice was written
C17_Witness ==
    \E rec \in Recs :
        /\ rec.op = "addSubscribers" /\ Len(rec.emails) = 2
        /\ rec.emails[1] = rec.emails[2]
        /\ Fetched(rec) /\ rec.fetched.shape = "list"
        /\ ~(EmailUrls(rec) \subseteq FetchedUrls(rec))
        /\ rec.puts = 1 /\ rec.status = 200
        /\ Len(rec.payload) = Len(rec.fetched.items) + 1

\* C18: every PUT and POST carries as If-Match the ETag its own call's GET
\* returned, so the writes of a thread that is the only writer never fail on
\* the precondition; the client's shared header map stays as it was
\* constructed, without an If-Match.
C18_IfMatchOfOwnFetch ==
    /\ rtcHeaders = ClientHeaders
    /\ "If-Match" \notin DOMAIN rtcHeaders
    /\ \A rec \in Recs :
           rec.puts + rec.posts > 0
               => /\ "If-Match" \in DOMAIN rec.reqHeaders
                  /\ rec.reqHeaders["If-Match"] = rec.fetchedEtag
                  /\ rec.status # 412

\* a second comment and a second subscriber were written, each under the ETag
\* the first write had produced
C18_Witness ==
    /\ \E i, j \in DOMAIN log :
           /\ i < j /\ log[i].posts = 1 /\ log[j].posts = 1
           /\ log[i].reqHeaders["If-Match"] = 0 /\ log[j].reqHeaders["If-Match"] = 1
           /\ log[j].status = 200
    /\ \E rec \in Recs : rec.puts = 1 /\ rec.status = 200

\* a call whose PUT the server applied
Accepted(rec) == rec.op \in SubscriberOps /\ rec.puts = 1 /\ rec.status = 200

\* the collection the GET of the call returned, as the server lists it
FetchedList(rec) == [i \in DOMAIN rec.fetched.items |-> rec.fetched.items[i].resource]

\* what a single add or remove makes of the collection coll
Applied(rec, coll) ==
    LET url == getOwnedBy(rec.emails[1]).url
    IN  IF rec.op = "addSubscriber"
        THEN IF url \in Range(coll) THEN coll ELSE Append(coll, url)
        ELSE SelectSeq(coll, LAMBDA u : u # url)

\* C19: with calls of two threads interleaved in every way, an accepted PUT
\* writes its call applied to the collection the server held just before the
\* PUT (the one the call had fetched), and every other call leaves the server
\* as it was: the server's collection is the accepted calls applied one after
\* another in the order of their PUTs.
C19_NoLostUpdate ==
    /\ Len(log) > 0 => srvSubs = log[Len(log)].srvAfter
    /\ \A j \in DOMAIN log :
           /\ Accepted(log[j])
                  => /\ log[j].srvAfter = log[j].payload
                     /\ log[j].payload = Applied(log[j], FetchedList(log[j]))
                     /\ j > 1 => FetchedList(log[j]) = log[j - 1].srvAfter
           /\ (~Accepted(log[j]) /\ j > 1) => log[j].srvAfter = log[j - 1].srvAfter

\* two threads fetched the same collection and both sent a PUT: the first was
\* accepted and is what the server holds, the second was rejected
C19_Witness ==
    \E i, j \in DOMAIN log :
        /\ Raced(i, j) /\ log[i].proc # log[j].proc
        /\ Accepted(log[i]) /\ ~Accepted(log[j]) /\ log[j].status = 412
        /\ log[i].emails # log[j].emails
        /\ srvSubs = log[i].payload /\ srvSubs # FetchedList(log[j])

\* two addComment calls that read the same total count under the same ETag and
\* both sent their POST
SameRead(i, j) ==
    /\ i < j
    /\ log[i].op = "addComment" /\ log[j].op = "addComment"
    /\ log[i].posts = 1 /\ log[j].posts = 1
    /\ log[i].fetchedEtag = log[j].fetchedEtag
    /\ log[i].fetchedCount = log[j].fetchedCount

\* C20: of two addComment calls that read the same total count and ETag at most
\* one POST is applied, the other ends in an error and adds no comment; no two
\* comments that were created have the same URL.
C20_UniqueCommentPosition ==
    \A i, j \in DOMAIN log :
        /\ SameRead(i, j) =>
               /\ ~(SuccessfulComment(log[i]) /\ SuccessfulComment(log[j]))
               /\ SuccessfulComment(log[i]) =>
                      /\ log[j].status \in {412, 500}
                      /\ log[j].outcome = "HTTPError"
                      /\ log[j].cmtAfter = log[j - 1].cmtAfter
        /\ (i # j /\ SuccessfulComment(log[i]) /\ SuccessfulComment(log[j]))
               => log[i].commentUrl # log[j].commentUrl

\* two threads derived the same URL; one comment was created, the other POST
\* failed its precondition
C20_Witness ==
    \E i, j \in DOMAIN log :
        /\ SameRead(i, j) /\ log[i].proc # log[j].proc
        /\ log[i].commentUrl = log[j].commentUrl
        /\ SuccessfulComment(log[i]) /\ log[j].status = 412
        /\ cmtCount = log[i].cmtAfter

====
